---------------------------- MODULE Spec2Model ----------------------------
(***************************************************************************)
(* A model of the polynomint crate: the Polynomial value type (a vector   *)
(* of integer coefficients in ascending degree) and its operators.        *)
(*                                                                         *)
(* A Polynomial is modelled by its `coeffs` vector, a TLA+ sequence; the   *)
(* Rust index i is the TLA+ index i + 1.  Every operator of the crate is   *)
(* an operator of the model that computes as the Rust code computes, loop  *)
(* by loop, and an action that applies it to operands and records what     *)
(* each calling form (by value, by reference, in place) gives.             *)
(* Coefficients are unbounded integers: the bounds below keep every        *)
(* intermediate value far inside the range of isize.                       *)
(***************************************************************************)
EXTENDS Integers, Sequences, FiniteSets, TLC

(***************************************************************************)
(* Bounds of the model.                                                    *)
(***************************************************************************)
\* longest coefficient vector handed to new() for the receiver
MaxLen == 3
\* longest coefficient vector handed to new() for a right operand
MaxLenRhs == 2
\* largest coefficient handed to new()
MaxCoef == 2
\* largest magnitude of a scalar operand or of a candidate root
MaxScal == 2
\* largest modulus handed to factor_root_mod with a receiver of any length
MaxMod == 7
\* largest argument handed to is_prime, and largest modulus handed to
\* factor_root_mod with a short receiver
MaxPrimeArg == 50
\* longest vector and largest coefficient magnitude an operation result may
\* have to be fed back as an operand in the chained specification
MaxChainLen == 3
MaxChainCoef == 2
\* largest modulus handed to factor_root_mod in the chained specification
MaxChainMod == 5
\* longest coefficient vector and largest coefficient of the operands of the
\* compared expressions p + q = q + p, (p + q) + r = p + (q + r), ...
MaxLawLen == 2
MaxLawCoef == 1

\* the coefficients handed to new(): one negative value and 0..MaxCoef
Coefs == {-1} \cup (0..MaxCoef)
Scalars == (-MaxScal)..MaxScal
Moduli == 1..MaxMod

RECURSIVE SeqsUpTo(_, _)
\* all sequences over S of length at most n
SeqsUpTo(S, n) ==
    IF n = 0 THEN {<<>>}
    ELSE LET shorter == SeqsUpTo(S, n - 1)
         IN  shorter \cup {Append(s, x) : s \in {t \in shorter : Len(t) = n - 1}, x \in S}

(***************************************************************************)
(* Integer arithmetic of Rust's isize, within range.                       *)
(***************************************************************************)
abs(x) == IF x < 0 THEN -x ELSE x

max(x, y) == IF x >= y THEN x ELSE y

\* isize::rem_euclid(x, n), n # 0: the remainder in [0, |n|)
int_rem_euclid(x, n) == x % abs(n)

\* x % n of Rust, n # 0: the remainder of the truncating division
int_rem(x, n) == IF x >= 0 THEN x % abs(n) ELSE -((-x) % abs(n))

\* x / a of Rust, a # 0: the quotient truncated toward zero
int_div(x, a) ==
    IF (x >= 0) = (a > 0) THEN abs(x) \div abs(a) ELSE -(abs(x) \div abs(a))

(***************************************************************************)
(* lib.rs: representation.                                                 *)
(***************************************************************************)
RECURSIVE reduce(_)
\* Polynomial::reduce: pop while the last coefficient is 0
reduce(coeffs) ==
    IF Len(coeffs) > 0 /\ coeffs[Len(coeffs)] = 0
    THEN reduce(SubSeq(coeffs, 1, Len(coeffs) - 1))
    ELSE coeffs

\* Polynomial::new
new(coeffs) == reduce(coeffs)

\* Polynomial::zero
zero == <<>>

\* Polynomial::constant
constant(i) == IF i = 0 THEN zero ELSE <<i>>

\* Polynomial::degree
degree(self) == Len(self) - 1

\* Polynomial::is_zero
is_zero(self) == degree(self) = -1

\* Polynomial::times_x: vec![0] followed by a clone of the coefficients
times_x(self) == <<0>> \o self

(***************************************************************************)
(* add.rs                                                                  *)
(***************************************************************************)
RECURSIVE add_loop(_, _, _, _)
\* the loop `for i in 0..=max(self.degree(), rhs.degree())` of the by-value
\* and in-place additions, which extends or updates self in place; hi is the
\* upper end of the range, computed once before the loop
add_loop(self, rhs, i, hi) ==
    IF i > hi THEN self
    ELSE IF i > degree(self) THEN add_loop(Append(self, rhs[i + 1]), rhs, i + 1, hi)
    ELSE IF i > degree(rhs) THEN self
    ELSE add_loop([self EXCEPT ![i + 1] = @ + rhs[i + 1]], rhs, i + 1, hi)

\* add_val with the closing reduce left out
add_val_noreduce(self, rhs) ==
    IF is_zero(self) THEN rhs
    ELSE IF is_zero(rhs) THEN self
    ELSE add_loop(self, rhs, 0, max(degree(self), degree(rhs)))

\* impl Add for Polynomial
add_val(self, rhs) ==
    IF is_zero(self) THEN rhs
    ELSE IF is_zero(rhs) THEN self
    ELSE reduce(add_loop(self, rhs, 0, max(degree(self), degree(rhs))))

RECURSIVE add_ref_loop(_, _, _, _, _)
\* the loop of the by-reference addition, which pushes onto a fresh vector
add_ref_loop(coeffs, self, rhs, i, hi) ==
    IF i > hi THEN coeffs
    ELSE IF i > degree(self) THEN add_ref_loop(Append(coeffs, rhs[i + 1]), self, rhs, i + 1, hi)
    ELSE IF i > degree(rhs) THEN add_ref_loop(Append(coeffs, self[i + 1]), self, rhs, i + 1, hi)
    ELSE add_ref_loop(Append(coeffs, self[i + 1] + rhs[i + 1]), self, rhs, i + 1, hi)

\* impl Add<&Polynomial> for &Polynomial
add_ref(self, rhs) ==
    reduce(new(add_ref_loop(<<>>, self, rhs, 0, max(degree(self), degree(rhs)))))

\* impl Add<isize> for Polynomial
add_scalar_val(self, rhs) ==
    IF is_zero(self) THEN constant(rhs)
    ELSE IF rhs = 0 THEN self
    ELSE reduce([self EXCEPT ![1] = @ + rhs])

\* impl Add<isize> for &Polynomial
add_scalar_ref(self, rhs) ==
    IF is_zero(self) THEN constant(rhs)
    ELSE IF rhs = 0 THEN self
    ELSE reduce([self EXCEPT ![1] = @ + rhs])

\* impl AddAssign for Polynomial: the value of self afterwards
add_assign_val(self, rhs) ==
    IF is_zero(self) THEN rhs
    ELSE IF ~is_zero(rhs)
         THEN reduce(add_loop(self, rhs, 0, max(degree(self), degree(rhs))))
         ELSE self

\* impl AddAssign<&Polynomial> for Polynomial: the value of self afterwards
add_assign_ref(self, rhs) ==
    IF is_zero(self) THEN rhs
    ELSE IF ~is_zero(rhs)
         THEN reduce(add_loop(self, rhs, 0, max(degree(self), degree(rhs))))
         ELSE self

\* impl AddAssign<isize> for Polynomial: the value of self afterwards
add_assign_scalar(self, rhs) ==
    IF is_zero(self) THEN Append(self, rhs)
    ELSE IF rhs # 0 THEN reduce([self EXCEPT ![1] = @ + rhs])
    ELSE self

(***************************************************************************)
(* sub.rs                                                                  *)
(***************************************************************************)
RECURSIVE sub_loop(_, _, _, _)
\* the loop of the by-value and in-place subtractions
sub_loop(self, rhs, i, hi) ==
    IF i > hi THEN self
    ELSE IF i > degree(self) THEN sub_loop(Append(self, -rhs[i + 1]), rhs, i + 1, hi)
    ELSE IF i > degree(rhs) THEN self
    ELSE sub_loop([self EXCEPT ![i + 1] = @ - rhs[i + 1]], rhs, i + 1, hi)

\* impl Sub for Polynomial
sub_val(self, rhs) ==
    IF is_zero(self) THEN rhs
    ELSE IF is_zero(rhs) THEN self
    ELSE reduce(sub_loop(self, rhs, 0, max(degree(self), degree(rhs))))

RECURSIVE sub_ref_loop(_, _, _, _, _)
\* the loop of the by-reference subtraction
sub_ref_loop(coeffs, self, rhs, i, hi) ==
    IF i > hi THEN coeffs
    ELSE IF i > degree(self) THEN sub_ref_loop(Append(coeffs, -rhs[i + 1]), self, rhs, i + 1, hi)
    ELSE IF i > degree(rhs) THEN sub_ref_loop(Append(coeffs, self[i + 1]), self, rhs, i + 1, hi)
    ELSE sub_ref_loop(Append(coeffs, self[i + 1] - rhs[i + 1]), self, rhs, i + 1, hi)

\* impl Sub<&Polynomial> for &Polynomial
sub_ref(self, rhs) ==
    reduce(new(sub_ref_loop(<<>>, self, rhs, 0, max(degree(self), degree(rhs)))))

\* impl Sub<isize> for Polynomial
sub_scalar_val(self, rhs) ==
    IF is_zero(self) THEN constant(-rhs)
    ELSE IF rhs = 0 THEN self
    ELSE reduce([self EXCEPT ![1] = @ - rhs])

\* impl Sub<isize> for &Polynomial
sub_scalar_ref(self, rhs) ==
    IF is_zero(self) THEN constant(-rhs)
    ELSE IF rhs = 0 THEN self
    ELSE reduce([self EXCEPT ![1] = @ - rhs])

\* neg_val with the constant term left as it is
neg_val_keep0(self) == [i \in DOMAIN self |-> IF i = 1 THEN self[i] ELSE -self[i]]

\* impl Neg for Polynomial: every coefficient negated, no reduce
neg_val(self) == [i \in DOMAIN self |-> -self[i]]

\* impl Neg for &Polynomial: every coefficient of a clone negated, then reduce
neg_ref(self) == reduce([i \in DOMAIN self |-> -self[i]])

\* impl SubAssign for Polynomial: the value of self afterwards
sub_assign_val(self, rhs) ==
    IF is_zero(self) THEN neg_val(rhs)
    ELSE IF ~is_zero(rhs)
         THEN reduce(sub_loop(self, rhs, 0, max(degree(self), degree(rhs))))
         ELSE self

\* sub_assign_ref with the negation of rhs left out when self is zero
sub_assign_ref_noneg(self, rhs) ==
    IF is_zero(self) THEN rhs
    ELSE IF ~is_zero(rhs)
         THEN reduce(sub_loop(self, rhs, 0, max(degree(self), degree(rhs))))
         ELSE self

\* impl SubAssign<&Polynomial> for Polynomial: the value of self afterwards
sub_assign_ref(self, rhs) ==
    IF is_zero(self) THEN neg_ref(rhs)
    ELSE IF ~is_zero(rhs)
         THEN reduce(sub_loop(self, rhs, 0, max(degree(self), degree(rhs))))
         ELSE self

\* impl SubAssign<isize> for Polynomial: the value of self afterwards
sub_assign_scalar(self, rhs) ==
    IF is_zero(self) THEN Append(self, -rhs)
    ELSE IF rhs # 0 THEN reduce([self EXCEPT ![1] = @ - rhs])
    ELSE self

(***************************************************************************)
(* mul.rs                                                                  *)
(***************************************************************************)
RECURSIVE mul_acc_strict(_, _, _, _, _)
\* mul_acc with the guard on n off by one (n < self.degree())
mul_acc_strict(acc, self, rhs, n, i) ==
    IF n > i THEN acc
    ELSE IF n < degree(self) /\ (i - n) <= degree(rhs)
         THEN mul_acc_strict(acc + self[n + 1] * rhs[(i - n) + 1], self, rhs, n + 1, i)
         ELSE mul_acc_strict(acc, self, rhs, n + 1, i)

RECURSIVE mul_acc(_, _, _, _, _)
\* the inner loop `for n in 0..=i` of a multiplication: the accumulator after
\* the terms n..i, a term being added only when both indices pass the guard
mul_acc(acc, self, rhs, n, i) ==
    IF n > i THEN acc
    ELSE IF n <= degree(self) /\ (i - n) <= degree(rhs)
         THEN mul_acc(acc + self[n + 1] * rhs[(i - n) + 1], self, rhs, n + 1, i)
         ELSE mul_acc(acc, self, rhs, n + 1, i)

RECURSIVE mul_loop(_, _, _, _, _)
\* the outer loop `for i in 0..=hi` of a multiplication, pushing one
\* accumulated coefficient per index
mul_loop(coeffs, self, rhs, i, hi) ==
    IF i > hi THEN coeffs
    ELSE mul_loop(Append(coeffs, mul_acc(0, self, rhs, 0, i)), self, rhs, i + 1, hi)

\* the pairs of indices <<n, i - n>> at which the loops of a multiplication
\* over i in 0..=hi read self.coeffs[n] and rhs.coeffs[i - n]: those that pass
\* the guard of the inner loop
mul_reads(self, rhs, hi) ==
    {<<t[2], t[1] - t[2]>> :
        t \in {u \in (0..hi) \X (0..hi) :
                 u[2] <= u[1] /\ u[2] <= degree(self) /\ (u[1] - u[2]) <= degree(rhs)}}

\* mul_val with the outer loop stopping one index early
mul_val_short(self, rhs) ==
    LET sdeg == degree(self)
        rdeg == degree(rhs)
    IN  IF is_zero(self) \/ is_zero(rhs) THEN zero
        ELSE reduce(mul_loop(<<>>, self, rhs, 0, sdeg + rdeg - 1))

\* impl Mul for Polynomial
mul_val(self, rhs) ==
    LET sdeg == degree(self)
        rdeg == degree(rhs)
    IN  IF is_zero(self) \/ is_zero(rhs) THEN zero
        ELSE reduce(mul_loop(<<>>, self, rhs, 0, sdeg + rdeg))

\* impl Mul<&Polynomial> for &Polynomial
mul_ref(self, rhs) ==
    IF is_zero(self) \/ is_zero(rhs) THEN zero
    ELSE reduce(new(mul_loop(<<>>, self, rhs, 0, degree(self) + degree(rhs))))

\* impl Mul<isize> for Polynomial
mul_scalar_val(self, rhs) ==
    IF is_zero(self) \/ rhs = 0 THEN zero
    ELSE [i \in DOMAIN self |-> self[i] * rhs]

\* impl Mul<isize> for &Polynomial
mul_scalar_ref(self, rhs) ==
    IF is_zero(self) \/ rhs = 0 THEN zero
    ELSE [i \in DOMAIN self |-> self[i] * rhs]

\* the receiver of an in-place multiplication when its loops start: it has
\* been overwritten by zero() if either operand is zero, with no early return
mul_assign_self(self, rhs) ==
    IF is_zero(self) \/ is_zero(rhs) THEN zero ELSE self

\* mul_assign_val with the closing reduce left out
mul_assign_val_noreduce(self, rhs) ==
    LET self1 == mul_assign_self(self, rhs)
    IN  mul_loop(<<>>, self1, rhs, 0, degree(self1) + degree(rhs))

\* impl MulAssign for Polynomial: the value of self afterwards
mul_assign_val(self, rhs) ==
    LET self1 == mul_assign_self(self, rhs)
    IN  reduce(mul_loop(<<>>, self1, rhs, 0, degree(self1) + degree(rhs)))

\* impl MulAssign<&Polynomial> for Polynomial: the value of self afterwards
mul_assign_ref(self, rhs) ==
    LET self1 == mul_assign_self(self, rhs)
    IN  reduce(mul_loop(<<>>, self1, rhs, 0, degree(self1) + degree(rhs)))

\* the index pairs the loops of an in-place multiplication read
mul_assign_reads(self, rhs) ==
    LET self1 == mul_assign_self(self, rhs)
    IN  mul_reads(self1, rhs, degree(self1) + degree(rhs))

\* impl MulAssign<isize> for Polynomial: the value of self afterwards
mul_assign_scalar(self, rhs) ==
    IF is_zero(self) \/ rhs = 0 THEN zero
    ELSE [i \in DOMAIN self |-> self[i] * rhs]

(***************************************************************************)
(* rem.rs                                                                  *)
(***************************************************************************)
\* `self.coeffs[i] %= rhs` panics when rhs is 0; the loop of each of the three
\* forms runs only when self is not zero
rem_panics(self, rhs) == ~is_zero(self) /\ rhs = 0

\* impl Rem<isize> for Polynomial (when it does not panic)
rem_val(self, rhs) ==
    IF is_zero(self) THEN self
    ELSE reduce([i \in DOMAIN self |-> int_rem(self[i], rhs)])

\* impl Rem<isize> for &Polynomial
rem_ref(self, rhs) ==
    IF is_zero(self) THEN zero
    ELSE reduce([i \in DOMAIN self |-> int_rem(self[i], rhs)])

\* rem_assign with the closing reduce left out
rem_assign_noreduce(self, rhs) ==
    IF ~is_zero(self)
    THEN [i \in DOMAIN self |-> int_rem(self[i], rhs)]
    ELSE self

\* impl RemAssign<isize> for Polynomial: the value of self afterwards
rem_assign(self, rhs) ==
    IF ~is_zero(self)
    THEN reduce([i \in DOMAIN self |-> int_rem(self[i], rhs)])
    ELSE self

(***************************************************************************)
(* lib.rs and math.rs: number-theoretic operations                         *)
(***************************************************************************)
\* isize::rem_euclid(n) panics when n is 0; the loop of Polynomial::rem_euclid
\* runs only when self is not zero
rem_euclid_panics(self, n) == ~is_zero(self) /\ n = 0

\* rem_euclid with the truncating remainder in place of the Euclidean one
rem_euclid_trunc(self, n) ==
    IF is_zero(self) THEN zero
    ELSE reduce([i \in DOMAIN self |-> int_rem(self[i], n)])

\* Polynomial::rem_euclid (when it does not panic)
rem_euclid(self, n) ==
    IF is_zero(self) THEN zero
    ELSE reduce([i \in DOMAIN self |-> int_rem_euclid(self[i], n)])

RECURSIVE derivative_loop_i(_, _, _)
\* derivative_loop with the factor i in place of i + 1
derivative_loop_i(coeffs, self, i) ==
    IF i >= degree(self) THEN coeffs
    ELSE derivative_loop_i(Append(coeffs, i * self[(i + 1) + 1]), self, i + 1)

RECURSIVE derivative_loop(_, _, _)
\* the loop `for i in 0..self.degree()` of derivative
derivative_loop(coeffs, self, i) ==
    IF i >= degree(self) THEN coeffs
    ELSE derivative_loop(Append(coeffs, (i + 1) * self[(i + 1) + 1]), self, i + 1)

\* Polynomial::derivative
derivative(self) ==
    IF degree(self) <= 0 THEN zero
    ELSE reduce(derivative_loop(<<>>, self, 0))

RECURSIVE eval_loop_flat(_, _, _, _)
\* eval_loop with the coefficient multiplied by x instead of the accumulator
eval_loop_flat(acc, self, k, x) ==
    IF k < 1 THEN acc
    ELSE eval_loop_flat(acc + x * self[k], self, k - 1, x)

RECURSIVE eval_loop(_, _, _, _)
\* the loop of eval over the coefficients in reverse; k is the TLA+ index of
\* the next coefficient to take
eval_loop(acc, self, k, x) ==
    IF k < 1 THEN acc
    ELSE eval_loop(acc * x + self[k], self, k - 1, x)

\* Polynomial::eval
eval(self, x) == eval_loop(0, self, Len(self), x)

\* Polynomial::has_root
has_root(self, x) == eval(self, x) = 0

\* self.eval(x).rem_euclid(div) panics when div is 0, whatever self is
has_root_mod_panics(self, x, div) == div = 0

\* Polynomial::has_root_mod (when it does not panic)
has_root_mod(self, x, div) == int_rem_euclid(eval(self, x), div) = 0

\* Option<Polynomial>
None == [some |-> FALSE, coeffs |-> <<>>]

Some(coeffs) == [some |-> TRUE, coeffs |-> coeffs]

\* iter().skip(1).copied().collect()
skip1(coeffs) == IF Len(coeffs) = 0 THEN <<>> ELSE Tail(coeffs)

\* the number of items of iter().take(n)
take_len(coeffs, n) == IF n < Len(coeffs) THEN n ELSE Len(coeffs)

RECURSIVE factor_root_loop_plus(_, _, _, _, _, _)
\* factor_root_loop with the coefficient added to the accumulator
factor_root_loop_plus(coeffs, acc, self, k, cnt, a) ==
    IF k > cnt THEN coeffs
    ELSE LET acc1 == int_div(acc + self[k], a)
         IN  factor_root_loop_plus(Append(coeffs, acc1), acc1, self, k + 1, cnt, a)

RECURSIVE factor_root_loop(_, _, _, _, _, _)
\* the synthetic-division loop of factor_root over the first cnt coefficients
factor_root_loop(coeffs, acc, self, k, cnt, a) ==
    IF k > cnt THEN coeffs
    ELSE LET acc1 == int_div(acc - self[k], a)
         IN  factor_root_loop(Append(coeffs, acc1), acc1, self, k + 1, cnt, a)

RECURSIVE factor_root_inexact_steps(_, _, _, _, _)
\* the number of steps k..cnt of the synthetic-division loop at which
\* `acc /= a` discards a nonzero remainder of acc - coeff
factor_root_inexact_steps(acc, self, k, cnt, a) ==
    IF k > cnt THEN 0
    ELSE (IF int_rem(acc - self[k], a) # 0 THEN 1 ELSE 0)
         + factor_root_inexact_steps(int_div(acc - self[k], a), self, k + 1, cnt, a)

\* the number of inexact divisions of a call of factor_root: 0 when the loop
\* is not reached
factor_root_inexact(self, a) ==
    IF ~has_root(self, a) \/ is_zero(self) \/ a = 0 THEN 0
    ELSE factor_root_inexact_steps(0, self, 1, take_len(self, degree(self)), a)

\* factor_root with the loop taking every coefficient of self
factor_root_takeall(self, a) ==
    IF ~has_root(self, a) THEN None
    ELSE IF is_zero(self) THEN Some(zero)
    ELSE IF a = 0 THEN Some(skip1(self))
    ELSE Some(factor_root_loop(<<>>, 0, self, 1, take_len(self, degree(self) + 1), a))

\* Polynomial::factor_root
factor_root(self, a) ==
    IF ~has_root(self, a) THEN None
    ELSE IF is_zero(self) THEN Some(zero)
    ELSE IF a = 0 THEN Some(skip1(self))
    ELSE Some(factor_root_loop(<<>>, 0, self, 1, take_len(self, degree(self)), a))

\* (p as f64).sqrt().floor() as usize, exact for the arguments of the model
floor_sqrt(p) == CHOOSE r \in 0..p : r * r <= p /\ (r + 1) * (r + 1) > p

\* Polynomial::is_prime
is_prime(p) ==
    IF p = 2 \/ p = 3 THEN TRUE
    ELSE IF p = 1 \/ p % 2 = 0 \/ p % 3 = 0 THEN FALSE
    ELSE ~\E i \in {x \in 5..(floor_sqrt(p) - 1) : x % 6 = 1 \/ x % 6 = 5} : p % i = 0

RECURSIVE inv_mod_p_loop(_, _, _, _)
\* the loop of the extended Euclidean algorithm: r_pair = (r0, r1),
\* s_pair = (s0, s1); the value is s_pair.0 when r_pair.1 reaches 0
inv_mod_p_loop(r0, r1, s0, s1) ==
    IF r1 = 0 THEN s0
    ELSE LET quot == int_div(r0, r1)
         IN  inv_mod_p_loop(r1, r0 - quot * r1, s1, s0 - quot * s1)

\* Polynomial::inv_mod_p
inv_mod_p(a, p) == int_rem_euclid(inv_mod_p_loop(a, p, 1, 0), p)

RECURSIVE factor_root_mod_loop(_, _, _, _, _, _, _)
\* the synthetic-division loop of factor_root_mod over the first cnt
\* coefficients of self.rem_euclid(p), here red
factor_root_mod_loop(coeffs, acc, red, k, cnt, a, p) ==
    IF k > cnt THEN coeffs
    ELSE LET acc1 == (acc - red[k]) * inv_mod_p(int_rem_euclid(a, p), p)
         IN  factor_root_mod_loop(Append(coeffs, int_rem_euclid(acc1, p)), acc1,
                                  red, k + 1, cnt, a, p)

\* the first operand of the `||` that opens factor_root_mod is
\* self.has_root_mod(a, p), evaluated before anything else
factor_root_mod_panics(self, a, p) == has_root_mod_panics(self, a, p)

\* Polynomial::factor_root_mod (p >= 1)
factor_root_mod(self, a, p) ==
    IF ~has_root_mod(self, a, p) \/ ~is_prime(p) THEN None
    ELSE IF is_zero(self) THEN Some(zero)
    ELSE IF a = 0 THEN Some(reduce(skip1(rem_euclid(self, p))))
    ELSE LET red == rem_euclid(self, p)
         IN  Some(factor_root_mod_loop(<<>>, 0, red, 1, take_len(red, degree(self)), a, p))

(***************************************************************************)
(* The state: the last operation applied, its operands, and what it gave.  *)
(***************************************************************************)
VARIABLES
    op,        \* the name of the last operation
    recv,      \* its receiver (left operand), as it was before the operation
    arg,       \* its right polynomial operand, zero when it has none
    scalar,    \* its integer operand (scalar, point or candidate root), or 0
    modulus,   \* its modulus, or 1
    val,       \* the result of the by-value form
    ref,       \* the result of the by-reference form
    asg,       \* the receiver after the in-place form taking an owned operand
    asgref,    \* the receiver after the in-place form taking a borrowed operand
    some,      \* an Option result is Some; a bool result is true
    num,       \* an integer result
    oob,       \* the operation read a coefficient index outside a vector
    arg2,      \* the third polynomial operand of a compound expression, or zero
    left,      \* the value of the left side of a compared pair of expressions
    right,     \* the value of the right side of a compared pair of expressions
    panicked   \* the call panicked instead of returning

vars == <<op, recv, arg, scalar, modulus, val, ref, asg, asgref, some, num, oob,
          arg2, left, right, panicked>>

\* every variable of the next state of a call that returns
Outcome(o, x, y, k, n, v, r, a, ar, sm, nm, ob) ==
    /\ op' = o
    /\ recv' = x
    /\ arg' = y
    /\ scalar' = k
    /\ modulus' = n
    /\ val' = v
    /\ ref' = r
    /\ asg' = a
    /\ asgref' = ar
    /\ some' = sm
    /\ num' = nm
    /\ oob' = ob
    /\ arg2' = zero
    /\ left' = zero
    /\ right' = zero
    /\ panicked' = FALSE

\* an operation with one calling form and a polynomial result
Single(o, x, y, k, n, v) == Outcome(o, x, y, k, n, v, v, v, v, TRUE, 0, FALSE)

\* a call that panics: nothing is returned, and a receiver borrowed mutably
\* is as the panicking statement found it
Panic(o, x, y, k, n) ==
    /\ op' = o
    /\ recv' = x
    /\ arg' = y
    /\ scalar' = k
    /\ modulus' = n
    /\ val' = zero
    /\ ref' = zero
    /\ asg' = x
    /\ asgref' = x
    /\ some' = FALSE
    /\ num' = 0
    /\ oob' = FALSE
    /\ arg2' = zero
    /\ left' = zero
    /\ right' = zero
    /\ panicked' = TRUE

\* two expressions over the operands x, y and z evaluated side by side: l is
\* the value of the first and r the value of the second
Compared(o, x, y, z, l, r) ==
    /\ op' = o
    /\ recv' = x
    /\ arg' = y
    /\ scalar' = 0
    /\ modulus' = 1
    /\ val' = zero
    /\ ref' = zero
    /\ asg' = zero
    /\ asgref' = zero
    /\ some' = TRUE
    /\ num' = 0
    /\ oob' = FALSE
    /\ arg2' = z
    /\ left' = l
    /\ right' = r
    /\ panicked' = FALSE

\* the polynomials the constructors build for a receiver and a right operand
Polys == {new(c) : c \in SeqsUpTo(Coefs, MaxLen)}

PolysRhs == {new(c) : c \in SeqsUpTo(Coefs, MaxLenRhs)}

NonzeroScalars == Scalars \ {0}

Init ==
    /\ op = "init"
    /\ recv = zero
    /\ arg = zero
    /\ scalar = 0
    /\ modulus = 1
    /\ val = zero
    /\ ref = zero
    /\ asg = zero
    /\ asgref = zero
    /\ some = TRUE
    /\ num = 0
    /\ oob = FALSE
    /\ arg2 = zero
    /\ left = zero
    /\ right = zero
    /\ panicked = FALSE

(***************************************************************************)
(* One action per public operation.                                        *)
(***************************************************************************)
\* a constructor is the first call of a computation
New(coeffs) == op = "init" /\ Single("new", zero, zero, 0, 1, new(coeffs))

Zero == op = "init" /\ Single("zero", zero, zero, 0, 1, zero)

Constant(i) == op = "init" /\ Single("constant", zero, zero, i, 1, constant(i))

Degree(x) == Outcome("degree", x, zero, 0, 1, x, x, x, x, TRUE, degree(x), FALSE)

Add(x, y) ==
    Outcome("add", x, y, 0, 1, add_val(x, y), add_ref(x, y),
            add_assign_val(x, y), add_assign_ref(x, y), TRUE, 0, FALSE)

Sub(x, y) ==
    Outcome("sub", x, y, 0, 1, sub_val(x, y), sub_ref(x, y),
            sub_assign_val(x, y), sub_assign_ref(x, y), TRUE, 0, FALSE)

Mul(x, y) ==
    Outcome("mul", x, y, 0, 1, mul_val(x, y), mul_ref(x, y),
            mul_assign_val(x, y), mul_assign_ref(x, y), TRUE, 0,
            \E r \in mul_assign_reads(x, y) :
                r[1] >= Len(mul_assign_self(x, y)) \/ r[2] >= Len(y))

AddScalar(x, k) ==
    Outcome("add_scalar", x, zero, k, 1, add_scalar_val(x, k), add_scalar_ref(x, k),
            add_assign_scalar(x, k), add_assign_scalar(x, k), TRUE, 0, FALSE)

SubScalar(x, k) ==
    Outcome("sub_scalar", x, zero, k, 1, sub_scalar_val(x, k), sub_scalar_ref(x, k),
            sub_assign_scalar(x, k), sub_assign_scalar(x, k), TRUE, 0, FALSE)

MulScalar(x, k) ==
    Outcome("mul_scalar", x, zero, k, 1, mul_scalar_val(x, k), mul_scalar_ref(x, k),
            mul_assign_scalar(x, k), mul_assign_scalar(x, k), TRUE, 0, FALSE)

Neg(x) ==
    Outcome("neg", x, zero, 0, 1, neg_val(x), neg_ref(x), neg_val(x), neg_ref(x),
            TRUE, 0, FALSE)

Rem(x, n) ==
    IF rem_panics(x, n) THEN Panic("rem", x, zero, 0, n)
    ELSE Outcome("rem", x, zero, 0, n, rem_val(x, n), rem_ref(x, n),
                 rem_assign(x, n), rem_assign(x, n), TRUE, 0, FALSE)

\* rem_euclid takes &self: the receiver afterwards is the receiver
RemEuclid(x, n) ==
    IF rem_euclid_panics(x, n) THEN Panic("rem_euclid", x, zero, 0, n)
    ELSE Outcome("rem_euclid", x, zero, 0, n, rem_euclid(x, n), rem_euclid(x, n),
                 x, x, TRUE, 0, FALSE)

Derivative(x) == Single("derivative", x, zero, 0, 1, derivative(x))

TimesX(x) == Single("times_x", x, zero, 0, 1, times_x(x))

Eval(x, k) ==
    Outcome("eval", x, zero, k, 1, x, x, x, x, has_root(x, k), eval(x, k), FALSE)

HasRootMod(x, k, n) ==
    IF has_root_mod_panics(x, k, n) THEN Panic("has_root_mod", x, zero, k, n)
    ELSE Outcome("has_root_mod", x, zero, k, n, x, x, x, x, has_root_mod(x, k, n),
                 eval(x, k), FALSE)

\* num is the number of inexact divisions of the loop
FactorRoot(x, a) ==
    LET res == factor_root(x, a)
    IN  Outcome("factor_root", x, zero, a, 1, res.coeffs, res.coeffs, x, x,
                res.some, factor_root_inexact(x, a), FALSE)

FactorRootMod(x, a, n) ==
    LET res == factor_root_mod(x, a, n)
    IN  IF factor_root_mod_panics(x, a, n) THEN Panic("factor_root_mod", x, zero, a, n)
        ELSE Outcome("factor_root_mod", x, zero, a, n, res.coeffs, res.coeffs, x, x,
                     res.some, 0, FALSE)

IsPrime(n) ==
    Outcome("is_prime", zero, zero, 0, n, zero, zero, zero, zero, is_prime(n), 0, FALSE)

\* the operands of a first call: S before any call, nothing afterwards
First(S) == IF op = "init" THEN S ELSE {}

\* one call: a constructor, or an operation applied to polynomials the
\* constructors built
Next ==
    \/ \E c \in First(SeqsUpTo(Coefs, MaxLen)) : New(c)
    \/ Zero
    \/ \E i \in First(Scalars) : Constant(i)
    \/ \E x \in First(Polys) : Degree(x)
    \/ \E x \in First(Polys), y \in PolysRhs : Add(x, y)
    \/ \E x \in First(Polys), y \in PolysRhs : Sub(x, y)
    \/ \E x \in First(Polys), y \in PolysRhs : Mul(x, y)
    \/ \E x \in First(Polys), k \in Scalars : AddScalar(x, k)
    \/ \E x \in First(Polys), k \in Scalars : SubScalar(x, k)
    \/ \E x \in First(Polys), k \in Scalars : MulScalar(x, k)
    \/ \E x \in First(Polys) : Neg(x)
    \/ \E x \in First(Polys), n \in Scalars : Rem(x, n)
    \/ \E x \in First(Polys), n \in Scalars : RemEuclid(x, n)
    \/ \E x \in First(Polys) : Derivative(x)
    \/ \E x \in First(Polys) : TimesX(x)
    \/ \E x \in First(Polys), a \in Scalars : FactorRoot(x, a)
    \/ \E x \in First(Polys), a \in Scalars, n \in {0} \cup Moduli : FactorRootMod(x, a, n)
    \/ \E x \in First(PolysRhs), a \in Scalars, n \in 1..MaxPrimeArg : FactorRootMod(x, a, n)
    \/ \E x \in First(Polys), k \in Scalars : Eval(x, k)
    \/ \E x \in First(Polys), k \in Scalars, n \in Scalars : HasRootMod(x, k, n)
    \/ \E n \in First(1..MaxPrimeArg) : IsPrime(n)

Spec == Init /\ [][Next]_vars

\* a vector small enough to be an operand again
Small(coeffs) ==
    /\ Len(coeffs) <= MaxChainLen
    /\ \A i \in DOMAIN coeffs : abs(coeffs[i]) <= MaxChainCoef

\* the polynomial values the last operation produced
Produced == {c \in {val, ref, asg, asgref} : Small(c)}

\* the right operands and the moduli of a chain of operations
ChainRhs == {new(c) : c \in SeqsUpTo(Coefs, 1)}

ChainModuli == 1..MaxChainMod

\* a chain of calls: a constructor first, then every operation that gives a
\* polynomial applied to a value the call before it produced
ChainNext ==
    \/ \E c \in First(SeqsUpTo(Coefs, MaxLen)) : New(c)
    \/ Zero
    \/ \E i \in First(Scalars) : Constant(i)
    \/ \E x \in Produced, y \in ChainRhs : Add(x, y)
    \/ \E x \in Produced, y \in ChainRhs : Sub(x, y)
    \/ \E x \in Produced, y \in ChainRhs : Mul(x, y)
    \/ \E x \in Produced, k \in Scalars : AddScalar(x, k)
    \/ \E x \in Produced, k \in Scalars : SubScalar(x, k)
    \/ \E x \in Produced, k \in Scalars : MulScalar(x, k)
    \/ \E x \in Produced : Neg(x)
    \/ \E x \in Produced, n \in NonzeroScalars : Rem(x, n)
    \/ \E x \in Produced, n \in NonzeroScalars : RemEuclid(x, n)
    \/ \E x \in Produced : Derivative(x)
    \/ \E x \in Produced : TimesX(x)
    \/ \E x \in Produced, a \in Scalars : FactorRoot(x, a)
    \/ \E x \in Produced, a \in Scalars, n \in ChainModuli : FactorRootMod(x, a, n)

ChainSpec == Init /\ [][ChainNext]_vars

(***************************************************************************)
(* Sequences of calls and compared expressions.                            *)
(***************************************************************************)
\* the statements `p -= &q;` then `p += &q;` of tests::it_works, with the
\* expression `&p - &q` evaluated before them: left is p after the first
\* statement, right is &p - &q, asgref is p after the second statement
SubAssignAddAssign(x, y) ==
    LET mid == sub_assign_ref(x, y)
    IN  /\ op' = "sub_add_assign"
        /\ recv' = x
        /\ arg' = y
        /\ scalar' = 0
        /\ modulus' = 1
        /\ val' = zero
        /\ ref' = sub_ref(x, y)
        /\ asg' = zero
        /\ asgref' = add_assign_ref(mid, y)
        /\ some' = TRUE
        /\ num' = 0
        /\ oob' = FALSE
        /\ arg2' = zero
        /\ left' = mid
        /\ right' = sub_ref(x, y)
        /\ panicked' = FALSE

\* p + Polynomial::zero() and Polynomial::zero() + p
AddIdentity(p) == Compared("add_identity", p, zero, zero, add_val(p, zero), add_val(zero, p))

\* p + (-p) and Polynomial::zero()
AddInverse(p) == Compared("add_inverse", p, zero, zero, add_val(p, neg_val(p)), zero)

\* p + q and q + p
AddCommute(p, q) == Compared("add_commute", p, q, zero, add_val(p, q), add_val(q, p))

\* (p + q) + r and p + (q + r)
AddAssoc(p, q, r) ==
    Compared("add_assoc", p, q, r, add_val(add_val(p, q), r), add_val(p, add_val(q, r)))

\* p * q and q * p
MulCommute(p, q) == Compared("mul_commute", p, q, zero, mul_val(p, q), mul_val(q, p))

\* the operands of the compared expressions, built by new()
LawCoefs == {-1} \cup (0..MaxLawCoef)

LawPolys == {new(c) : c \in SeqsUpTo(LawCoefs, MaxLawLen)}

\* one constructor call, one two-statement sequence or one pair of compared
\* expressions over polynomials the constructors built
LawNext ==
    \/ \E c \in First(SeqsUpTo(Coefs, MaxLen)) : New(c)
    \/ Zero
    \/ \E i \in First(Scalars) : Constant(i)
    \/ \E x \in First(Polys), y \in PolysRhs : SubAssignAddAssign(x, y)
    \/ \E p \in First(LawPolys) : AddIdentity(p)
    \/ \E p \in First(LawPolys) : AddInverse(p)
    \/ \E p \in First(LawPolys), q \in LawPolys : AddCommute(p, q)
    \/ \E p \in First(LawPolys), q \in LawPolys, r \in LawPolys : AddAssoc(p, q, r)
    \/ \E p \in First(LawPolys), q \in LawPolys : MulCommute(p, q)

LawSpec == Init /\ [][LawNext]_vars

(***************************************************************************)
(* What the properties speak of, stated without the code's algorithms.     *)
(***************************************************************************)
\* no trailing zero coefficient
Normalized(coeffs) == Len(coeffs) = 0 \/ coeffs[Len(coeffs)] # 0

\* the coefficient at TLA+ index i, a missing one counting as 0
Coef(coeffs, i) == IF i \in DOMAIN coeffs THEN coeffs[i] ELSE 0

\* coeffs up to its last nonzero coefficient
Trim(coeffs) ==
    LET nz == {i \in 1..Len(coeffs) : coeffs[i] # 0}
    IN  IF nz = {} THEN <<>>
        ELSE [i \in 1..(CHOOSE k \in nz : \A j \in nz : j <= k) |-> coeffs[i]]

\* the coefficientwise sum of two polynomials
PolySum(f, g) == Trim([i \in 1..max(Len(f), Len(g)) |-> Coef(f, i) + Coef(g, i)])

RECURSIVE ConvSum(_, _, _, _)
\* the sum over n in a..i, n <= deg f and i - n <= deg g, of f[n] * g[i - n]
\* (degrees and indices counted from 0)
ConvSum(f, g, i, a) ==
    IF a > i THEN 0
    ELSE (IF a <= Len(f) - 1 /\ i - a <= Len(g) - 1 THEN f[a + 1] * g[i - a + 1] ELSE 0)
         + ConvSum(f, g, i, a + 1)

\* the convolution of two nonzero polynomials
PolyProduct(f, g) == Trim([i \in 1..(Len(f) + Len(g) - 1) |-> ConvSum(f, g, i - 1, 0)])

\* the polynomial f with v added to its constant term
ScalarShift(f, v) == Trim(IF Len(f) = 0 THEN <<v>> ELSE [f EXCEPT ![1] = @ + v])

\* x - c is a multiple of n
Congruent(x, c, n) == \E k \in (-(abs(x) + abs(c)))..(abs(x) + abs(c)) : x - c = k * n

\* the Euclidean remainder of x by n # 0: the c in [0, |n|) congruent to x
EuclidRem(x, n) == CHOOSE c \in 0..(abs(n) - 1) : Congruent(x, c, n)

\* the truncating remainder of x by n # 0: the r of magnitude below |n|, zero
\* or of the sign of x, congruent to x
TruncRem(x, n) ==
    CHOOSE r \in (-(abs(n) - 1))..(abs(n) - 1) :
        /\ Congruent(x, r, n)
        /\ r = 0 \/ (r > 0 <=> x > 0)

RECURSIVE Power(_, _)
\* x to the power e >= 0
Power(x, e) == IF e = 0 THEN 1 ELSE x * Power(x, e - 1)

RECURSIVE PowerSum(_, _, _)
\* the sum over the TLA+ indices i..Len(f) of f[i] * x^(i - 1)
PowerSum(f, x, i) ==
    IF i > Len(f) THEN 0 ELSE f[i] * Power(x, i - 1) + PowerSum(f, x, i + 1)

\* n is a prime number
IsPrimeNumber(n) == n > 1 /\ \A d \in 2..(n - 1) : n % d # 0

(***************************************************************************)
(* Properties.                                                             *)
(***************************************************************************)
\* C1: after any chain of public operations started by a constructor, every
\* polynomial value produced has a coefficient vector that is empty or ends
\* in a nonzero coefficient.
C1_EveryValueNormalized == \A c \in {val, ref, asg, asgref} : Normalized(c)

\* C2: p - q by value, &p - &q by reference and p after p -= q (owned and
\* borrowed q) all equal p + (-q), for p and q zero or not.
C2_SubIsAddOfNeg ==
    op = "sub" =>
        /\ val = add_val(recv, neg_val(arg))
        /\ ref = add_val(recv, neg_val(arg))
        /\ asg = add_val(recv, neg_val(arg))
        /\ asgref = add_val(recv, neg_val(arg))

\* C3: p + v and p - v change only the constant term, give constant(v) and
\* constant(-v) on the zero polynomial, give the zero polynomial when the only
\* coefficient becomes 0, and the by-value, by-reference and in-place forms
\* give the same coefficient vector.
C3_ScalarAddSub ==
    /\ op = "add_scalar" =>
        /\ val = ScalarShift(recv, scalar)
        /\ ref = ScalarShift(recv, scalar)
        /\ asg = ScalarShift(recv, scalar)
    /\ op = "sub_scalar" =>
        /\ val = ScalarShift(recv, -scalar)
        /\ ref = ScalarShift(recv, -scalar)
        /\ asg = ScalarShift(recv, -scalar)

\* C4: times_x of a nonzero polynomial is 0 followed by its coefficients, and
\* times_x of the zero polynomial is the zero polynomial (empty vector).
C4_TimesX ==
    op = "times_x" =>
        /\ recv # zero => val = <<0>> \o recv
        /\ recv = zero => val = zero /\ is_zero(val)

\* C5: if a is a root of p, factor_root(a) is Some(q) with q * poly[-a, 1] = p
\* (and q = zero when p = zero); if a is not a root it is None.
C5_FactorRootRoundTrip ==
    op = "factor_root" =>
        IF has_root(recv, scalar)
        THEN /\ some
             /\ mul_val(val, new(<<-scalar, 1>>)) = recv
             /\ mul_ref(val, new(<<-scalar, 1>>)) = recv
             /\ recv = zero => val = zero
        ELSE ~some

\* a nonzero polynomial with a nonzero root has been factored by the
\* synthetic-division loop
C5_Witness ==
    /\ op = "factor_root"
    /\ some
    /\ scalar # 0
    /\ Len(recv) = 3
    /\ Len(val) = 2

\* C6: for a prime m and a root a of f modulo m (a may be a nonzero multiple
\* of m), factor_root_mod(a, m) is Some(q) with
\* (q * poly[-a, 1]).rem_euclid(m) = f.rem_euclid(m); if a is not a root
\* modulo m it is None.
C6_FactorRootModRoundTrip ==
    (op = "factor_root_mod" /\ IsPrimeNumber(modulus)) =>
        IF has_root_mod(recv, scalar, modulus)
        THEN /\ some
             /\ rem_euclid(mul_val(val, new(<<-scalar, 1>>)), modulus)
                    = rem_euclid(recv, modulus)
        ELSE ~some

\* C7: factor_root_mod(a, m) is None for every modulus m >= 1 that is not a
\* prime number, and is_prime(m) is true exactly when m is prime.
C7_PrimalityGate ==
    /\ (op = "factor_root_mod" /\ ~IsPrimeNumber(modulus)) => ~some
    /\ op = "is_prime" => (some <=> IsPrimeNumber(modulus))

\* C8: p + q has at each index the sum of the operands' coefficients (a
\* missing one counting as 0) with trailing zeros removed, in the by-value
\* form, the by-reference form and both in-place forms.
C8_Addition ==
    op = "add" =>
        /\ val = PolySum(recv, arg)
        /\ ref = PolySum(recv, arg)
        /\ asg = PolySum(recv, arg)
        /\ asgref = PolySum(recv, arg)

\* two polynomials of degree 1 have been added and their leading
\* coefficients cancelled
C8_Witness ==
    /\ op = "add"
    /\ Len(recv) = 2
    /\ Len(arg) = 2
    /\ Len(val) = 1

\* C9: for nonzero p and q the product has at each index i in 0..=d1+d2 the
\* convolution sum, normalized, in the by-value form, the by-reference form
\* and both in-place forms.
C9_Multiplication ==
    (op = "mul" /\ recv # zero /\ arg # zero) =>
        /\ val = PolyProduct(recv, arg)
        /\ ref = PolyProduct(recv, arg)
        /\ asg = PolyProduct(recv, arg)
        /\ asgref = PolyProduct(recv, arg)

\* a polynomial of degree 2 has been multiplied by one of degree 1
C9_Witness ==
    /\ op = "mul"
    /\ Len(recv) = 3
    /\ Len(arg) = 2
    /\ Len(asgref) = 4

\* C10: p * zero() and zero() * p are zero() by value and by reference, the
\* left operand is zero() after p *= zero() and after z *= p with z = zero(),
\* and the in-place forms read no index outside either operand's vector.
C10_MultiplicativeZero ==
    (op = "mul" /\ (recv = zero \/ arg = zero)) =>
        /\ val = zero
        /\ ref = zero
        /\ asg = zero
        /\ asgref = zero
        /\ ~oob

\* the zero polynomial has been multiplied in place by one of degree 1, so
\* the loops of the in-place form ran
C10_Witness ==
    /\ op = "mul"
    /\ recv = zero
    /\ Len(arg) = 2
    /\ asg = zero

\* C11: for all polynomials p and q (either may be zero, either may have the
\* higher degree), after `p -= &q` the receiver equals &p - &q, and after the
\* following `p += &q` it equals the original p.
C11_SubAddRoundTrip ==
    op = "sub_add_assign" =>
        /\ left = right
        /\ left = Trim([i \in 1..max(Len(recv), Len(arg)) |-> Coef(recv, i) - Coef(arg, i)])
        /\ asgref = recv

\* a polynomial of degree 0 had one of degree 1 subtracted from it in place
\* and added back, its vector growing and then shrinking again
C11_Witness ==
    /\ op = "sub_add_assign"
    /\ Len(recv) = 1
    /\ Len(arg) = 2
    /\ Len(left) = 2
    /\ Len(asgref) = 1

\* C12: for polynomials p, q, r built by the constructors, p + zero() = p,
\* zero() + p = p, p + (-p) = zero(), p + q = q + p,
\* (p + q) + r = p + (q + r) and p * q = q * p, equality being equality of
\* the coefficient vectors.
C12_AlgebraicLaws ==
    /\ op = "add_identity" => (left = recv /\ right = recv)
    /\ op = "add_inverse" => (left = right /\ left = zero)
    /\ op \in {"add_commute", "add_assoc", "mul_commute"} => left = right

\* three nonzero polynomials of different degrees were added in both
\* groupings
C12_Witness ==
    /\ op = "add_assoc"
    /\ Len(recv) = 2
    /\ Len(arg) = 1
    /\ Len(arg2) = 2
    /\ Len(left) = 1

\* C13: degree() is the length of the coefficient vector minus 1, it is -1
\* exactly when the polynomial has no nonzero coefficient, and for nonzero p
\* and q the degree of p * q is degree(p) + degree(q), in every calling form
\* of the multiplication.
C13_DegreeLaw ==
    /\ op = "degree" =>
        /\ num = Len(recv) - 1
        /\ num = -1 <=> (\A i \in DOMAIN recv : recv[i] = 0)
    /\ (op = "mul" /\ recv # zero /\ arg # zero) =>
        /\ degree(val) = degree(recv) + degree(arg)
        /\ degree(ref) = degree(recv) + degree(arg)
        /\ degree(asg) = degree(recv) + degree(arg)
        /\ degree(asgref) = degree(recv) + degree(arg)

\* a polynomial of degree 2 was multiplied by one of degree 1 and the
\* product has degree 3
C13_Witness ==
    /\ op = "mul"
    /\ degree(recv) = 2
    /\ degree(arg) = 1
    /\ degree(val) = 3

\* C14: for every polynomial p and every nonzero n, p.rem_euclid(n) returns,
\* with trailing zeros removed, the vector holding at each index i the c with
\* 0 <= c < |n| congruent to p[i] modulo n (so the zero polynomial when every
\* coefficient is a multiple of n), and p is unchanged.
C14_RemEuclid ==
    (op = "rem_euclid" /\ modulus # 0) =>
        /\ ~panicked
        /\ val = Trim([i \in DOMAIN recv |-> EuclidRem(recv[i], modulus)])
        /\ \A i \in DOMAIN val : 0 <= val[i] /\ val[i] < abs(modulus)
        /\ (\A i \in DOMAIN recv : Congruent(recv[i], 0, modulus)) => val = zero
        /\ asg = recv

\* a polynomial with a negative coefficient and a leading coefficient that
\* is a multiple of the modulus was reduced by a negative modulus
C14_Witness ==
    /\ op = "rem_euclid"
    /\ modulus = -2
    /\ recv = <<-1, 1, 2>>
    /\ val = <<1, 1>>

\* C15: for every polynomial p and nonzero n, p % n holds at each index the
\* truncating remainder of the coefficient (zero or of the coefficient's
\* sign, of magnitude below |n|), normalized; the by-value, by-reference and
\* in-place forms agree; and its coefficient differs from the one of
\* p.rem_euclid(n) exactly where p's coefficient is negative and not a
\* multiple of n, where it is smaller by |n|.
C15_TruncatingRem ==
    (op = "rem" /\ modulus # 0) =>
        /\ ~panicked
        /\ val = Trim([i \in DOMAIN recv |-> TruncRem(recv[i], modulus)])
        /\ ref = val
        /\ asg = val
        /\ \A i \in DOMAIN recv :
            LET e == Coef(rem_euclid(recv, modulus), i)
            IN  IF recv[i] < 0 /\ ~Congruent(recv[i], 0, modulus)
                THEN Coef(val, i) = e - abs(modulus)
                ELSE Coef(val, i) = e

\* a polynomial with a negative coefficient that is not a multiple of the
\* modulus was reduced, and normalization removed its leading coefficient
C15_Witness ==
    /\ op = "rem"
    /\ modulus = 2
    /\ recv = <<-1, 1, 2>>
    /\ asg = <<-1, 1>>

\* C16: for p of degree d >= 1 the derivative has degree d - 1 and at each
\* index i in 0..=d-1 the coefficient (i + 1) * p[i + 1]; for p of degree
\* <= 0 it is zero(); the result is normalized.
C16_Derivative ==
    op = "derivative" =>
        /\ degree(recv) >= 1 =>
            /\ degree(val) = degree(recv) - 1
            /\ \A i \in 0..(degree(recv) - 1) : val[i + 1] = (i + 1) * recv[(i + 1) + 1]
        /\ degree(recv) <= 0 => val = zero
        /\ Normalized(val)

\* a polynomial of degree 2 was differentiated
C16_Witness ==
    /\ op = "derivative"
    /\ degree(recv) = 2
    /\ degree(val) = 1
    /\ val[2] = 2 * recv[3]

\* C17: eval(x) is the sum over i of p[i] * x^i (0 for the zero polynomial),
\* has_root(x) is true iff that sum is 0, and for n # 0 has_root_mod(x, n) is
\* true iff that sum is a multiple of n.
C17_EvalAndRoots ==
    /\ op = "eval" =>
        /\ num = PowerSum(recv, scalar, 1)
        /\ recv = zero => num = 0
        /\ some <=> PowerSum(recv, scalar, 1) = 0
    /\ (op = "has_root_mod" /\ modulus # 0) =>
        /\ ~panicked
        /\ some <=> Congruent(PowerSum(recv, scalar, 1), 0, modulus)

\* a polynomial of degree 2 with a nonzero value that is a multiple of the
\* modulus was tested for a root modulo it
C17_Witness ==
    /\ op = "has_root_mod"
    /\ degree(recv) = 2
    /\ scalar = -2
    /\ modulus = 2
    /\ num # 0
    /\ some

\* C18: every public operation returns normally for every input; with
\* modulus 0, p % 0, p %= 0, p.rem_euclid(0) and p.has_root_mod(x, 0) return
\* a result and p.factor_root_mod(a, 0) returns None; and a factor_root or
\* factor_root_mod that returns None leaves the receiver unchanged.
C18_Totality ==
    /\ ~panicked
    /\ (op = "factor_root_mod" /\ modulus = 0) => ~some
    /\ (op \in {"factor_root", "factor_root_mod"} /\ ~some) => asg = recv

\* C19: in factor_root(a) with a # 0, p nonzero and a a root of p, every
\* division of the loop is exact, the loop appends exactly degree(p)
\* coefficients, the last one appended is p's leading coefficient, and so the
\* result has degree degree(p) - 1 and no trailing zero.
C19_ExactSyntheticDivision ==
    (op = "factor_root" /\ scalar # 0 /\ recv # zero /\ has_root(recv, scalar)) =>
        /\ some
        /\ num = 0
        /\ Len(val) = degree(recv)
        /\ Len(val) >= 1
        /\ val[Len(val)] = recv[Len(recv)]
        /\ degree(val) = degree(recv) - 1
        /\ Normalized(val)

\* a polynomial of degree 2 with the root 2 or -2 and a nonzero constant
\* term was divided by the loop
C19_Witness ==
    /\ op = "factor_root"
    /\ some
    /\ scalar \in {2, -2}
    /\ degree(recv) = 2
    /\ recv[1] # 0
    /\ num = 0

\* C20: whenever factor_root_mod(a, m) returns Some(q) for a prime m, every
\* coefficient of q lies in [0, m), q has no trailing zero, and for f not
\* zero modulo m the degree of q is degree(f.rem_euclid(m)) - 1, also when
\* f's leading coefficient is a multiple of m.
C20_CanonicalModularQuotient ==
    (op = "factor_root_mod" /\ IsPrimeNumber(modulus) /\ some) =>
        /\ \A i \in DOMAIN val : 0 <= val[i] /\ val[i] < modulus
        /\ Normalized(val)
        /\ rem_euclid(recv, modulus) # zero =>
               degree(val) = degree(rem_euclid(recv, modulus)) - 1

=============================================================================
